---- MODULE Spec2Model ----
(***************************************************************************)
(* Entra token to PostgreSQL credential derivation                         *)
(* (python/entra_connection.py) and the pooled caller (python/sample.py).  *)
(*                                                                         *)
(* Python values are records tagged by field t: None, str (a sequence of   *)
(* one-character strings), and the token strings handed out by a           *)
(* credential.                                                             *)
(***************************************************************************)
EXTENDS Integers, Sequences, FiniteSets, TLC

\* ------------------------------------------------------------------------
\* Python values
\* ------------------------------------------------------------------------
None == [t |-> "None"]

Str(s) == [t |-> "str", v |-> s]

\* Python truthiness of the values used here: None and "" are falsy.
Truthy(x) == IF x.t = "None" THEN FALSE
             ELSE IF x.t = "str" THEN x.v # <<>>
             ELSE TRUE

\* Python `a or b`
Or(a, b) == IF Truthy(a) THEN a ELSE b

UpperChars == <<"A", "B", "C", "D", "E", "F", "G", "H", "I", "J", "K", "L", "M", "N", "O", "P", "Q", "R", "S", "T", "U", "V", "W", "X", "Y", "Z">>

LowerChars == <<"a", "b", "c", "d", "e", "f", "g", "h", "i", "j", "k", "l", "m", "n", "o", "p", "q", "r", "s", "t", "u", "v", "w", "x", "y", "z">>

\* str.lower() on one character
LowerChar(c) == IF \E i \in 1..Len(UpperChars) : UpperChars[i] = c
                THEN LowerChars[CHOOSE i \in 1..Len(UpperChars) : UpperChars[i] = c]
                ELSE c

\* str.lower()
Lower(s) == [i \in 1..Len(s) |-> LowerChar(s[i])]

\* str.endswith(suffix)
EndsWith(s, suffix) ==
    /\ Len(suffix) <= Len(s)
    /\ SubSeq(s, Len(s) - Len(suffix) + 1, Len(s)) = suffix

\* str.rfind('/') as a 0-based index, -1 when there is no '/'
RFindSlash(s) ==
    IF \E i \in 1..Len(s) : s[i] = "/"
    THEN (CHOOSE i \in 1..Len(s) : s[i] = "/" /\ \A j \in (i+1)..Len(s) : s[j] # "/") - 1
    ELSE -1

\* ------------------------------------------------------------------------
\* Constants of the module
\* ------------------------------------------------------------------------
AZURE_DB_FOR_POSTGRES_SCOPE == "https://ossrdbms-aad.database.windows.net/.default"

AZURE_MANAGEMENT_SCOPE == "https://management.azure.com/.default"

Scopes == {AZURE_DB_FOR_POSTGRES_SCOPE, AZURE_MANAGEMENT_SCOPE}

\* the literal of line 110
IdentitySuffix == <<"p", "r", "o", "v", "i", "d", "e", "r", "s", "/", "m", "i", "c", "r", "o", "s", "o", "f", "t", ".", "m", "a", "n", "a", "g", "e", "d", "i", "d", "e", "n", "t", "i", "t", "y", "/", "u", "s", "e", "r", "a", "s", "s", "i", "g", "n", "e", "d", "i", "d", "e", "n", "t", "i", "t", "i", "e", "s">>

\* ------------------------------------------------------------------------
\* parse_principal_name
\* ------------------------------------------------------------------------
\* the comparison of the prefix made without lower()
parse_principal_name_case_sensitive(xms_mirid) ==
    IF ~Truthy(xms_mirid) THEN None
    ELSE LET last_slash_index == RFindSlash(xms_mirid.v)
         IN IF last_slash_index = -1 THEN None
            ELSE LET beginning == SubSeq(xms_mirid.v, 1, last_slash_index)
                     principal_name == SubSeq(xms_mirid.v, last_slash_index + 2, Len(xms_mirid.v))
                 IN IF principal_name = <<>> \/ ~EndsWith(beginning, IdentitySuffix)
                    THEN None
                    ELSE Str(principal_name)

parse_principal_name(xms_mirid) ==
    IF ~Truthy(xms_mirid) THEN None
    ELSE LET last_slash_index == RFindSlash(xms_mirid.v)
         IN IF last_slash_index = -1 THEN None
            ELSE LET beginning == SubSeq(xms_mirid.v, 1, last_slash_index)
                     principal_name == SubSeq(xms_mirid.v, last_slash_index + 2, Len(xms_mirid.v))
                 IN IF principal_name = <<>> \/ ~EndsWith(Lower(beginning), IdentitySuffix)
                    THEN None
                    ELSE Str(principal_name)

\* ------------------------------------------------------------------------
\* decode_jwt
\* ------------------------------------------------------------------------
\* A token string is described by the number of its '.'-separated segments,
\* the length of its second segment, what the bytes of that segment parse to
\* as JSON ("object", "array" or "invalid"), and, for an object, its claims.

\* base64.urlsafe_b64decode on n data characters followed by pad '=' signs:
\* n % 4 = 1 is never decodable, missing padding is an error, excess padding
\* is ignored.
b64decode_ok(n, pad) == (n % 4) # 1 /\ pad >= (4 - (n % 4)) % 4

\* no padding appended at all
decode_jwt_pad_none(token) == 0

decode_jwt_pad(token) == 4 - (token.plen % 4)

decode_jwt(token) ==
    IF token.nseg < 2 THEN [ok |-> FALSE, err |-> "IndexError"]
    ELSE LET padding == decode_jwt_pad(token)
         IN IF ~b64decode_ok(token.plen, padding) THEN [ok |-> FALSE, err |-> "binascii.Error"]
            ELSE IF token.json = "invalid" THEN [ok |-> FALSE, err |-> "JSONDecodeError"]
            ELSE [ok |-> TRUE, json |-> token.json, claims |-> token.claims]

\* ------------------------------------------------------------------------
\* dicts (kwargs, claims, conninfo) are functions from keys to values
\* ------------------------------------------------------------------------
\* dict.get(k)
Get(d, k) == IF k \in DOMAIN d THEN d[k] ELSE None

\* d with key k set to v
Set(d, k, v) == [x \in DOMAIN d \cup {k} |-> IF x = k THEN v ELSE d[x]]

\* d without key k (dict.pop drops the key)
Drop(d, k) == [x \in DOMAIN d \ {k} |-> d[x]]

\* Python `a | b` on dicts: keys of b override those of a
DictUnion(a, b) == [x \in DOMAIN a \cup DOMAIN b |-> IF x \in DOMAIN b THEN b[x] ELSE a[x]]

\* ------------------------------------------------------------------------
\* username resolution inside get_entra_conninfo
\* ------------------------------------------------------------------------
\* the expression with `upn` and `preferred_username` in the other order
username_primary_swapped(claims) ==
    Or(parse_principal_name(Get(claims, "xms_mirid")),
       Or(Get(claims, "preferred_username"),
          Or(Get(claims, "upn"),
             Get(claims, "unique_name"))))

\* lines 135-140, on the claims of the database-scope token
username_primary(claims) ==
    Or(parse_principal_name(Get(claims, "xms_mirid")),
       Or(Get(claims, "upn"),
          Or(Get(claims, "preferred_username"),
             Get(claims, "unique_name"))))

\* lines 148-153, on the claims of the management-scope token
username_fallback(claims) ==
    Or(parse_principal_name(Get(claims, "xms_mirid")),
       Or(Get(claims, "upn"),
          Or(Get(claims, "preferred_username"),
             Get(claims, "unique_name"))))

\* ------------------------------------------------------------------------
\* credentials
\* ------------------------------------------------------------------------
SyncCredential == [t |-> "TokenCredential"]

AsyncCredential == [t |-> "AsyncTokenCredential"]

\* the n-th object that DefaultAzureCredential() has made in this process
DefaultInstance(n) == [t |-> "DefaultAzureCredential", id |-> n]

DefaultAzureCredential == DefaultInstance(1)

\* isinstance(credential, (TokenCredential, AsyncTokenCredential))
IsCredential(c) == c.t \in {"TokenCredential", "AsyncTokenCredential", "DefaultAzureCredential"}

\* isinstance(credential, AsyncTokenCredential)
IsAsyncCredential(c) == c.t = "AsyncTokenCredential"

\* ------------------------------------------------------------------------
\* bounds and inputs
\* ------------------------------------------------------------------------
\* connect calls made during one run
MaxCalls == 2

\* AsyncConnectionPool(min_size=1, max_size=2): connections the pool opens
min_size == 1

max_size == 2

Tasks == 1..max_size

Absent == [t |-> "absent"]

\* d, with key k when the caller passes it
WithOpt(d, k, opt) == IF opt = Absent THEN d ELSE Set(d, k, opt)

svc == Str(<<"s", "v", "c">>)

secret == Str(<<"s", "e", "c", "r", "e", "t">>)

UserInputs == {Absent, Str(<<>>), svc}

PasswordInputs == {Absent, Str(<<>>), secret}

\* credential=..., among them two values that are no credential: "" and "x"
CredentialInputs == {Absent, None, Str(<<>>), Str(<<"x">>), SyncCredential, AsyncCredential}

\* the keyword arguments of the pool (sample.py) besides the three above
PoolKwargs == [host |-> Str(<<"h">>), dbname |-> Str(<<"d">>), sslmode |-> Str(<<"r", "e", "q", "u", "i", "r", "e">>)]

\* positional arguments of connect: none, or a conninfo string
ArgsInputs == {<<>>, <<Str(<<"h", "o", "s", "t", "=", "h">>)>>}

KwargsInputs ==
    { WithOpt(WithOpt(WithOpt(PoolKwargs, "user", u), "password", p), "credential", c) :
        u \in UserInputs, p \in PasswordInputs, c \in CredentialInputs }

\* claims a token may carry
MiridValid == Str(<<"/", "s", "/", "x", "/", "p", "r", "o", "v", "i", "d", "e", "r", "s", "/", "M", "i", "c", "r", "o", "s", "o", "f", "t", ".", "M", "a", "n", "a", "g", "e", "d", "I", "d", "e", "n", "t", "i", "t", "y", "/", "u", "s", "e", "r", "A", "s", "s", "i", "g", "n", "e", "d", "I", "d", "e", "n", "t", "i", "t", "i", "e", "s", "/", "m", "y", "-", "a", "p", "p">>)

MiridEmptyName == Str(<<"/", "s", "/", "x", "/", "p", "r", "o", "v", "i", "d", "e", "r", "s", "/", "M", "i", "c", "r", "o", "s", "o", "f", "t", ".", "M", "a", "n", "a", "g", "e", "d", "I", "d", "e", "n", "t", "i", "t", "y", "/", "u", "s", "e", "r", "A", "s", "s", "i", "g", "n", "e", "d", "I", "d", "e", "n", "t", "i", "t", "i", "e", "s", "/">>)

MiridLower == Str(<<"p", "r", "o", "v", "i", "d", "e", "r", "s", "/", "m", "i", "c", "r", "o", "s", "o", "f", "t", ".", "m", "a", "n", "a", "g", "e", "d", "i", "d", "e", "n", "t", "i", "t", "y", "/", "u", "s", "e", "r", "a", "s", "s", "i", "g", "n", "e", "d", "i", "d", "e", "n", "t", "i", "t", "i", "e", "s", "/", "i", "d">>)

MiridOtherPrefix == Str(<<"/", "p", "r", "o", "v", "i", "d", "e", "r", "s", "/", "M", "i", "c", "r", "o", "s", "o", "f", "t", ".", "M", "a", "n", "a", "g", "e", "d", "I", "d", "e", "n", "t", "i", "t", "y", "/", "m", "y", "-", "a", "p", "p">>)

MiridNoSlash == Str(<<"m", "y", "-", "a", "p", "p">>)

MiridInputs == {Absent, Str(<<>>), MiridValid, MiridEmptyName, MiridLower, MiridOtherPrefix, MiridNoSlash}

UpnInputs == {Absent, Str(<<>>), Str(<<"u", "@", "x">>)}

PreferredInputs == {Absent, Str(<<>>), Str(<<"p", "r", "e", "f">>)}

UniqueInputs == {Absent, Str(<<>>), Str(<<"u", "n", "i", "q">>)}

\* every claims object has claims besides the four that name the principal
BaseClaims == [oid |-> Str(<<"o">>)]

ClaimsOf(m, u, p, q) ==
    WithOpt(WithOpt(WithOpt(WithOpt(BaseClaims, "xms_mirid", m), "upn", u),
                    "preferred_username", p), "unique_name", q)

AllClaims ==
    { ClaimsOf(m, u, p, q) :
        m \in MiridInputs, u \in UpnInputs, p \in PreferredInputs, q \in UniqueInputs }

\* what a credential may answer to get_token(scope): token strings, some of
\* them malformed
TokenBodies ==
    { [nseg |-> 3, plen |-> 12, json |-> "object",
       claims |-> ClaimsOf(Absent, Str(<<"u", "@", "x">>), Absent, Absent)],
      [nseg |-> 3, plen |-> 11, json |-> "object",
       claims |-> ClaimsOf(MiridValid, Absent, Absent, Absent)],
      [nseg |-> 3, plen |-> 10, json |-> "object", claims |-> BaseClaims],
      [nseg |-> 1, plen |-> 0, json |-> "invalid", claims |-> BaseClaims],
      [nseg |-> 3, plen |-> 13, json |-> "invalid", claims |-> BaseClaims],
      [nseg |-> 3, plen |-> 8, json |-> "invalid", claims |-> BaseClaims],
      [nseg |-> 3, plen |-> 3, json |-> "array", claims |-> BaseClaims] }

Token(scope, body) ==
    [t |-> "token", scope |-> scope, nseg |-> body.nseg, plen |-> body.plen,
     json |-> body.json, claims |-> body.claims]

\* ------------------------------------------------------------------------
\* state
\* ------------------------------------------------------------------------
VARIABLES
    live,                \* the tasks in which the pool calls connect
    task,                \* per task: the frame of connect and of the get_entra_conninfo it awaits
    default_cache,       \* lru_cache of get_default_azure_credentials: None or the instance
    default_constructed, \* how many times DefaultAzureCredential() has run
    entered,             \* entries into `async with credential` on the shared async credential
    exited,              \* exits from it
    cred_state,          \* the shared async credential: "new", "open" or "closed"
    calls,               \* connect calls started
    rclaims,             \* a claims object handed to the username expression
    rstage,              \* which of the two username expressions evaluates it
    rusername,           \* the value of the expression, Unbound before it is evaluated
    xms_in,              \* an xms_mirid value handed to parse_principal_name
    xms_out,             \* what parse_principal_name returns for it, Unbound before the call
    jwt_in,              \* a token string handed to decode_jwt
    jwt_pad,             \* how many '=' decode_jwt appended to its payload, -1 before the call
    jwt_out,             \* what decode_jwt returns or raises, Unbound before the call
    thr                  \* per thread: its call of get_default_azure_credentials()

\* the state of the pure functions exercised on their own, and of the threads
pure == <<rclaims, rstage, rusername, xms_in, xms_out, jwt_in, jwt_pad, jwt_out, thr>>

vars == <<live, task, default_cache, default_constructed, entered, exited, cred_state, calls,
          pure>>

Unbound == [t |-> "unbound"]

\* threads that call get_default_azure_credentials()
NThreads == 3

Threads == 1..NThreads

\* a thread before its call
IdleThread == [pc |-> "idle", made |-> None, ret |-> None]

\* the token string decode_jwt holds before any is handed to it
IdleToken == Token(AZURE_DB_FOR_POSTGRES_SCOPE,
                   [nseg |-> 3, plen |-> 12, json |-> "object", claims |-> BaseClaims])

NotCalled == [t |-> "not_called"]

\* the frame before connect is called
IdleFrame ==
    [pc |-> "idle", args |-> <<>>, kwargs |-> PoolKwargs, credential |-> None,
     stage |-> "none", scope |-> "", token |-> None, username |-> None,
     entra_conninfo |-> Unbound, forwarded_args |-> <<>>, forwarded |-> NotCalled,
     result |-> "none", acqs |-> <<>>, got |-> <<>>, raised |-> "none",
     given |-> PoolKwargs, underlying |-> "none", cancelled_at |-> "none"]

Init ==
    /\ live = 1..min_size
    /\ task = [t \in Tasks |-> IdleFrame]
    /\ default_cache = None
    /\ default_constructed = 0
    /\ entered = 0
    /\ exited = 0
    /\ cred_state = "new"
    /\ calls = 0
    /\ rclaims = BaseClaims
    /\ rstage = "primary"
    /\ rusername = Unbound
    /\ xms_in = None
    /\ xms_out = Unbound
    /\ jwt_in = IdleToken
    /\ jwt_pad = -1
    /\ jwt_out = Unbound
    /\ thr = [h \in Threads |-> IdleThread]

\* ------------------------------------------------------------------------
\* steps of the frame (pure: frame in, frame out)
\* ------------------------------------------------------------------------
Raise(f, e) == [f EXCEPT !.pc = "done", !.result = e]

\* get_entra_token_async / get_entra_token: the call of credential.get_token(scope)
StartGetToken(f, stage, scope) ==
    [f EXCEPT !.pc = "get_token", !.stage = stage, !.scope = scope,
              !.acqs = Append(@, scope)]

\* the call that hands on the derived pair alone
Line194_only_conninfo(f) ==
    IF f.entra_conninfo = Unbound
    THEN Raise(f, "UnboundLocalError")
    ELSE [f EXCEPT !.pc = "super_connect",
                   !.forwarded_args = f.args,
                   !.forwarded = f.entra_conninfo]

\* line 194: super().connect(*args, **kwargs | entra_conninfo); the argument
\* expression is evaluated before the call is made
Line194(f) ==
    IF f.entra_conninfo = Unbound
    THEN Raise(f, "UnboundLocalError")
    ELSE [f EXCEPT !.pc = "super_connect",
                   !.forwarded_args = f.args,
                   !.forwarded = DictUnion(f.kwargs, f.entra_conninfo)]

\* the merge in which an explicit password is kept and kwargs is forwarded as it is
Lines190To194_keep_password(f, conninfo) ==
    LET f1 == [f EXCEPT !.entra_conninfo = conninfo]
        f2 == IF ~Truthy(Get(f1.kwargs, "password"))
              THEN [f1 EXCEPT !.kwargs = Set(@, "password", conninfo["password"])]
              ELSE f1
        f3 == IF ~Truthy(Get(f2.kwargs, "user"))
              THEN [f2 EXCEPT !.kwargs = Set(@, "user", conninfo["user"])]
              ELSE f2
    IN [f3 EXCEPT !.pc = "super_connect", !.forwarded_args = f3.args, !.forwarded = f3.kwargs]

\* lines 189-193, once get_entra_conninfo has returned conninfo
Lines190To194(f, conninfo) ==
    LET f1 == [f EXCEPT !.entra_conninfo = conninfo,
                        !.kwargs = Set(@, "password", conninfo["password"])]
        f2 == IF ~Truthy(Get(f1.kwargs, "user"))
              THEN [f1 EXCEPT !.kwargs = Set(@, "user", conninfo["user"])]
              ELSE f1
    IN Line194(f2)

\* the return in which the password stays the first token acquired
Lines155To161_first_token(f) ==
    IF ~Truthy(f.username)
    THEN Raise(f, "ValueError: Could not determine username")
    ELSE Lines190To194(f, [user |-> f.username, password |-> f.got[1]])

\* the return without the check of line 155
Lines155To161_unchecked(f) ==
    Lines190To194(f, [user |-> f.username, password |-> f.token])

\* lines 155-161 of get_entra_conninfo: the locals username and token as they are now
Lines155To161(f) ==
    IF ~Truthy(f.username)
    THEN Raise(f, "ValueError: Could not determine username")
    ELSE Lines190To194(f, [user |-> f.username, password |-> f.token])

\* a decoder failure on the database-scope token taken for a missing username
Lines134To154_decode_falls_back(f) ==
    LET d == decode_jwt(f.token)
    IN IF ~d.ok THEN StartGetToken(f, "fallback", AZURE_MANAGEMENT_SCOPE)
       ELSE IF d.json # "object" THEN Raise(f, "AttributeError")
       ELSE LET f1 == [f EXCEPT !.username = username_primary(d.claims)]
            IN IF ~Truthy(f1.username)
               THEN StartGetToken(f1, "fallback", AZURE_MANAGEMENT_SCOPE)
               ELSE Lines155To161(f1)

\* lines 134-154 once the database-scope token is in the local token
Lines134To154(f) ==
    LET d == decode_jwt(f.token)
    IN IF ~d.ok THEN Raise(f, d.err)
       ELSE IF d.json # "object" THEN Raise(f, "AttributeError")
       ELSE LET f1 == [f EXCEPT !.username = username_primary(d.claims)]
            IN IF ~Truthy(f1.username)
               THEN StartGetToken(f1, "fallback", AZURE_MANAGEMENT_SCOPE)
               ELSE Lines155To161(f1)

\* lines 147-154 once the management-scope token is in the local token
Lines147To154(f) ==
    LET d == decode_jwt(f.token)
    IN IF ~d.ok THEN Raise(f, d.err)
       ELSE IF d.json # "object" THEN Raise(f, "AttributeError")
       ELSE Lines155To161([f EXCEPT !.username = username_fallback(d.claims)])

\* get_default_azure_credentials() under lru_cache(maxsize=1), given the cache
get_default_azure_credentials(cache) ==
    IF cache = None THEN DefaultAzureCredential ELSE cache

\* the call that takes the pair another call has derived instead of deriving
Lines184To189_cached(a, kw, default) ==
    LET credential == Get(kw, "credential")
        f == [IdleFrame EXCEPT !.args = a, !.given = kw, !.kwargs = Drop(kw, "credential"),
                               !.credential = credential]
    IN IF Truthy(credential) /\ ~IsCredential(credential)
       THEN Raise(f, "ValueError: credential must be a TokenCredential or AsyncTokenCredential")
       ELSE IF ~Truthy(Get(f.kwargs, "user")) \/ ~Truthy(Get(f.kwargs, "password"))
       THEN IF \E u \in Tasks : task[u].entra_conninfo # Unbound
            THEN Lines190To194([f EXCEPT !.credential = Or(credential, default)],
                               task[CHOOSE u \in Tasks : task[u].entra_conninfo # Unbound].entra_conninfo)
            ELSE StartGetToken([f EXCEPT !.credential = Or(credential, default)],
                               "primary", AZURE_DB_FOR_POSTGRES_SCOPE)
       ELSE Line194(f)

\* the derivation that asks for the management scope first
Lines184To189_management_first(a, kw, default) ==
    LET credential == Get(kw, "credential")
        f == [IdleFrame EXCEPT !.args = a, !.given = kw, !.kwargs = Drop(kw, "credential"),
                               !.credential = credential]
    IN IF Truthy(credential) /\ ~IsCredential(credential)
       THEN Raise(f, "ValueError: credential must be a TokenCredential or AsyncTokenCredential")
       ELSE IF ~Truthy(Get(f.kwargs, "user")) \/ ~Truthy(Get(f.kwargs, "password"))
       THEN StartGetToken([f EXCEPT !.credential = Or(credential, default)],
                          "primary", AZURE_MANAGEMENT_SCOPE)
       ELSE Line194(f)

\* lines 184-189 of connect, with the credential that line 188 resolves to
Lines184To189(a, kw, default) ==
    LET credential == Get(kw, "credential")
        f == [IdleFrame EXCEPT !.args = a, !.given = kw, !.kwargs = Drop(kw, "credential"),
                               !.credential = credential]
    IN IF Truthy(credential) /\ ~IsCredential(credential)
       THEN Raise(f, "ValueError: credential must be a TokenCredential or AsyncTokenCredential")
       ELSE IF ~Truthy(Get(f.kwargs, "user")) \/ ~Truthy(Get(f.kwargs, "password"))
       THEN StartGetToken([f EXCEPT !.credential = Or(credential, default)],
                          "primary", AZURE_DB_FOR_POSTGRES_SCOPE)
       ELSE Line194(f)

\* does connect reach line 188 for these keyword arguments
ReachesLine188(kw) ==
    LET credential == Get(kw, "credential")
    IN /\ ~(Truthy(credential) /\ ~IsCredential(credential))
       /\ (~Truthy(Get(kw, "user")) \/ ~Truthy(Get(kw, "password")))

\* ------------------------------------------------------------------------
\* actions
\* ------------------------------------------------------------------------
\* `async with credential:` is entered when an acquisition on the async
\* credential starts and left when it ends
InFlightAsync(f) == f.pc = "get_token" /\ IsAsyncCredential(f.credential)

Enter(f) ==
    /\ entered' = IF InFlightAsync(f) THEN entered + 1 ELSE entered
    /\ exited' = exited
    /\ cred_state' = IF InFlightAsync(f) THEN "open" ELSE cred_state

LeaveAndEnter(old, f) ==
    /\ exited' = IF InFlightAsync(old) THEN exited + 1 ELSE exited
    /\ entered' = IF InFlightAsync(f) THEN entered + 1 ELSE entered
    /\ cred_state' = IF InFlightAsync(f) THEN "open"
                     ELSE IF InFlightAsync(old) THEN "closed"
                     ELSE cred_state

\* AsyncEntraConnection.connect(*args, **kw) is called and runs to its first await
Connect(t, a, kw) ==
    /\ t \in live
    /\ task[t].pc \in {"idle", "done"}
    /\ calls < MaxCalls
    /\ calls' = calls + 1
    /\ LET miss == ReachesLine188(kw) /\ ~Truthy(Get(kw, "credential")) /\ default_cache = None
           f == Lines184To189(a, kw, get_default_azure_credentials(default_cache))
       IN /\ task' = [task EXCEPT ![t] = f]
          /\ default_cache' =
                IF ReachesLine188(kw) /\ ~Truthy(Get(kw, "credential"))
                THEN get_default_azure_credentials(default_cache) ELSE default_cache
          /\ default_constructed' = IF miss THEN default_constructed + 1 ELSE default_constructed
          /\ Enter(f)
    /\ UNCHANGED <<live, pure>>

\* credential.get_token(scope) returns a token; the frame runs to its next await
GetTokenReturns(t, body) ==
    /\ task[t].pc = "get_token"
    /\ LET old == task[t]
           token == Token(old.scope, body)
           f0 == [old EXCEPT !.pc = "running", !.token = token, !.got = Append(@, token)]
           f == IF old.stage = "primary" THEN Lines134To154(f0) ELSE Lines147To154(f0)
       IN /\ task' = [task EXCEPT ![t] = f]
          /\ LeaveAndEnter(old, f)
    /\ UNCHANGED <<live, default_cache, default_constructed, calls, pure>>

\* what the identity provider may report
AcquisitionErrors == {"ClientAuthenticationError", "ServiceRequestError"}

\* a failed acquisition that is tried once more
GetTokenRaises_retry(t, e) ==
    /\ task[t].pc = "get_token"
    /\ LET old == task[t]
           f == StartGetToken([old EXCEPT !.raised = e], old.stage, old.scope)
       IN /\ task' = [task EXCEPT ![t] = f]
          /\ exited' = IF InFlightAsync(old) THEN exited + 1 ELSE exited
          /\ entered' = IF InFlightAsync(f) THEN entered + 1 ELSE entered
          /\ cred_state' = IF InFlightAsync(f) THEN "open" ELSE cred_state
    /\ UNCHANGED <<live, default_cache, default_constructed, calls, pure>>

\* credential.get_token(scope) raises e
GetTokenRaises(t, e) ==
    /\ task[t].pc = "get_token"
    /\ LET old == task[t]
           f == Raise([old EXCEPT !.raised = e], e)
       IN /\ task' = [task EXCEPT ![t] = f]
          /\ LeaveAndEnter(old, f)
    /\ UNCHANGED <<live, default_cache, default_constructed, calls, pure>>

\* a cancellation that leaves the `async with` block without its exit
Cancel_leaks(t) ==
    /\ InFlightAsync(task[t]) \/ task[t].pc = "super_connect"
    /\ LET old == task[t]
           f == Raise([old EXCEPT !.cancelled_at = old.pc], "CancelledError")
       IN task' = [task EXCEPT ![t] = f]
    /\ UNCHANGED <<live, default_cache, default_constructed, entered, exited, cred_state, calls,
                   pure>>

\* the task is cancelled at an await: the get_token of an async credential,
\* or the underlying connect
Cancel(t) ==
    /\ InFlightAsync(task[t]) \/ task[t].pc = "super_connect"
    /\ LET old == task[t]
           f == Raise([old EXCEPT !.cancelled_at = old.pc], "CancelledError")
       IN /\ task' = [task EXCEPT ![t] = f]
          /\ LeaveAndEnter(old, f)
    /\ UNCHANGED <<live, default_cache, default_constructed, calls, pure>>

\* AsyncConnection.connect returns a connection or raises
SuperConnectReturns(t, ok) ==
    /\ task[t].pc = "super_connect"
    /\ task' = [task EXCEPT ![t] =
                   [@ EXCEPT !.pc = "done",
                             !.underlying = IF ok THEN "connection" ELSE "OperationalError",
                             !.result = IF ok THEN "connection" ELSE "OperationalError"]]
    /\ UNCHANGED <<live, default_cache, default_constructed, entered, exited, cred_state, calls,
                   pure>>

Next ==
    \/ \E t \in Tasks, a \in ArgsInputs, kw \in KwargsInputs : Connect(t, a, kw)
    \/ \E t \in Tasks, body \in TokenBodies : GetTokenReturns(t, body)
    \/ \E t \in Tasks, e \in AcquisitionErrors : GetTokenRaises(t, e)
    \/ \E t \in Tasks : Cancel(t)
    \/ \E t \in Tasks, ok \in BOOLEAN : SuperConnectReturns(t, ok)

Spec == Init /\ [][Next]_vars

\* ------------------------------------------------------------------------
\* the username expression on its own, over every combination of the claims
\* ------------------------------------------------------------------------
InitResolve ==
    /\ live = 1..min_size
    /\ task = [t \in Tasks |-> IdleFrame]
    /\ default_cache = None
    /\ default_constructed = 0
    /\ entered = 0
    /\ exited = 0
    /\ cred_state = "new"
    /\ calls = 0
    /\ rclaims \in AllClaims
    /\ rstage \in {"primary", "fallback"}
    /\ rusername = Unbound
    /\ xms_in = None
    /\ xms_out = Unbound
    /\ jwt_in = IdleToken
    /\ jwt_pad = -1
    /\ jwt_out = Unbound
    /\ thr = [h \in Threads |-> IdleThread]

Resolve ==
    /\ rusername = Unbound
    /\ rusername' = IF rstage = "primary" THEN username_primary(rclaims)
                    ELSE username_fallback(rclaims)
    /\ UNCHANGED <<live, task, default_cache, default_constructed, entered, exited,
                   cred_state, calls, rclaims, rstage, xms_in, xms_out, jwt_in, jwt_pad,
                   jwt_out, thr>>

NextResolve == Resolve

SpecResolve == InitResolve /\ [][NextResolve]_vars

\* ------------------------------------------------------------------------
\* parse_principal_name on its own
\* ------------------------------------------------------------------------
\* the state of connect and of the credentials
conn == <<live, task, default_cache, default_constructed, entered, exited, cred_state, calls>>

\* no connect call made yet
ConnIdle ==
    /\ live = 1..min_size
    /\ task = [t \in Tasks |-> IdleFrame]
    /\ default_cache = None
    /\ default_constructed = 0
    /\ entered = 0
    /\ exited = 0
    /\ cred_state = "new"
    /\ calls = 0

\* str.upper(), to build inputs
Upper(s) ==
    [i \in 1..Len(s) |->
        IF \E k \in 1..Len(LowerChars) : LowerChars[k] = s[i]
        THEN UpperChars[CHOOSE k \in 1..Len(LowerChars) : LowerChars[k] = s[i]]
        ELSE s[i]]

\* providers/Microsoft.ManagedIdentity/userAssignedIdentities as Azure writes it
MixedCaseSuffix == SubSeq(MiridValid.v, 6, 5 + Len(IdentitySuffix))

PathHeads == {<<>>, <<"/">>, <<"/", "s", "/", "x", "/">>}

PathMiddles ==
    { <<>>, IdentitySuffix, MixedCaseSuffix, Upper(IdentitySuffix),
      SubSeq(IdentitySuffix, 1, Len(IdentitySuffix) - 1),
      IdentitySuffix \o <<"x">>,
      SubSeq(MixedCaseSuffix, 1, 35) }

PathSeparators == {<<>>, <<"/">>}

PathNames == {<<>>, <<"m", "y", "-", "a", "p", "p">>, <<"a", "/", "b">>, <<"I", "D">>}

XmsMiridInputs ==
    {None} \cup { Str(h \o m \o sep \o n) :
                    h \in PathHeads, m \in PathMiddles, sep \in PathSeparators, n \in PathNames }

InitParse ==
    /\ ConnIdle
    /\ rclaims = BaseClaims
    /\ rstage = "primary"
    /\ rusername = Unbound
    /\ xms_in \in XmsMiridInputs
    /\ xms_out = Unbound
    /\ jwt_in = IdleToken
    /\ jwt_pad = -1
    /\ jwt_out = Unbound
    /\ thr = [h \in Threads |-> IdleThread]

ParsePrincipalName ==
    /\ xms_out = Unbound
    /\ xms_out' = parse_principal_name(xms_in)
    /\ UNCHANGED <<conn, rclaims, rstage, rusername, xms_in, jwt_in, jwt_pad, jwt_out, thr>>

NextParse == ParsePrincipalName

SpecParse == InitParse /\ [][NextParse]_vars

\* ------------------------------------------------------------------------
\* decode_jwt on its own
\* ------------------------------------------------------------------------
\* longest claims segment handed to decode_jwt
MaxPayloadLen == 16

\* most '.'-separated segments of a token string
MaxSegments == 4

\* what the bytes behind n base64url characters can be: n % 4 = 1 encodes no
\* bytes at all, a JSON value needs one byte (2 characters), an object two (3)
PayloadKinds(n) ==
    {"invalid"} \cup (IF (n % 4) # 1 /\ n >= 2 THEN {"array"} ELSE {})
                \cup (IF (n % 4) # 1 /\ n >= 3 THEN {"object"} ELSE {})

JwtInputs ==
    { Token(AZURE_DB_FOR_POSTGRES_SCOPE,
            [nseg |-> 1, plen |-> 0, json |-> "invalid", claims |-> BaseClaims]) }
    \cup
    UNION { { Token(AZURE_DB_FOR_POSTGRES_SCOPE,
                    [nseg |-> k, plen |-> n, json |-> j,
                     claims |-> IF j = "object"
                                THEN ClaimsOf(Absent, Str(<<"u", "@", "x">>), Absent, Absent)
                                ELSE BaseClaims]) :
                j \in PayloadKinds(n) } :
            k \in 2..MaxSegments, n \in 0..MaxPayloadLen }

InitDecode ==
    /\ ConnIdle
    /\ rclaims = BaseClaims
    /\ rstage = "primary"
    /\ rusername = Unbound
    /\ xms_in = None
    /\ xms_out = Unbound
    /\ jwt_in \in JwtInputs
    /\ jwt_pad = -1
    /\ jwt_out = Unbound
    /\ thr = [h \in Threads |-> IdleThread]

\* decode_jwt(jwt_in): line 85 is reached when line 84 found a second segment
DecodeJwt ==
    /\ jwt_out = Unbound
    /\ jwt_pad' = IF jwt_in.nseg < 2 THEN -1 ELSE decode_jwt_pad(jwt_in)
    /\ jwt_out' = decode_jwt(jwt_in)
    /\ UNCHANGED <<conn, rclaims, rstage, rusername, xms_in, xms_out, jwt_in, thr>>

NextDecode == DecodeJwt

SpecDecode == InitDecode /\ [][NextDecode]_vars

\* ------------------------------------------------------------------------
\* get_default_azure_credentials() called from several threads
\* ------------------------------------------------------------------------
\* functools.lru_cache looks the key up, calls the wrapped function without
\* holding a lock when the key is missing, and then stores the result unless
\* another thread has stored one meanwhile; the caller gets its own result.
InitThreads ==
    /\ ConnIdle
    /\ rclaims = BaseClaims
    /\ rstage = "primary"
    /\ rusername = Unbound
    /\ xms_in = None
    /\ xms_out = Unbound
    /\ jwt_in = IdleToken
    /\ jwt_pad = -1
    /\ jwt_out = Unbound
    /\ thr = [h \in Threads |-> IdleThread]

threadFrame == <<live, task, entered, exited, cred_state, calls, rclaims, rstage, rusername,
                 xms_in, xms_out, jwt_in, jwt_pad, jwt_out>>

\* the wrapper looks into the cache: a hit returns the cached instance
CacheLookup(h) ==
    /\ thr[h].pc = "idle"
    /\ thr' = [thr EXCEPT ![h] =
                  IF default_cache # None
                  THEN [@ EXCEPT !.pc = "returned",
                                 !.ret = get_default_azure_credentials(default_cache)]
                  ELSE [@ EXCEPT !.pc = "miss"]]
    /\ UNCHANGED <<default_cache, default_constructed, threadFrame>>

\* line 72: DefaultAzureCredential() runs
Construct(h) ==
    /\ thr[h].pc = "miss"
    /\ default_constructed' = default_constructed + 1
    /\ thr' = [thr EXCEPT ![h] = [@ EXCEPT !.pc = "made",
                                           !.made = DefaultInstance(default_constructed + 1)]]
    /\ UNCHANGED <<default_cache, threadFrame>>

\* the wrapper stores the result if the cache is still empty, and returns it
CacheStore(h) ==
    /\ thr[h].pc = "made"
    /\ default_cache' = IF default_cache = None THEN thr[h].made ELSE default_cache
    /\ thr' = [thr EXCEPT ![h] = [@ EXCEPT !.pc = "returned", !.ret = thr[h].made]]
    /\ UNCHANGED <<default_constructed, threadFrame>>

\* the caller goes on and may call again
CallAgain(h) ==
    /\ thr[h].pc = "returned"
    /\ thr' = [thr EXCEPT ![h] = [@ EXCEPT !.pc = "idle"]]
    /\ UNCHANGED <<default_cache, default_constructed, threadFrame>>

NextThreads ==
    \/ \E h \in Threads : CacheLookup(h)
    \/ \E h \in Threads : Construct(h)
    \/ \E h \in Threads : CacheStore(h)
    \/ \E h \in Threads : CallAgain(h)

SpecThreads == InitThreads /\ [][NextThreads]_vars

\* ------------------------------------------------------------------------
\* the pool of sample.py opening its connections in concurrent tasks
\* ------------------------------------------------------------------------
\* keyword arguments the pool passes on: its own, with or without a user, with
\* the default credential or one async credential shared by all connections
PoolInputs ==
    { WithOpt(WithOpt(PoolKwargs, "user", u), "credential", c) :
        u \in {Absent, svc}, c \in {Absent, AsyncCredential} }

\* answers of the credential: a token that names the principal, one that does
\* not, a malformed one
PoolTokenBodies ==
    { [nseg |-> 3, plen |-> 12, json |-> "object",
       claims |-> ClaimsOf(Absent, Str(<<"u", "@", "x">>), Absent, Absent)],
      [nseg |-> 3, plen |-> 10, json |-> "object", claims |-> BaseClaims],
      [nseg |-> 3, plen |-> 13, json |-> "invalid", claims |-> BaseClaims] }

InitPool ==
    /\ live = Tasks
    /\ task = [t \in Tasks |-> IdleFrame]
    /\ default_cache = None
    /\ default_constructed = 0
    /\ entered = 0
    /\ exited = 0
    /\ cred_state = "new"
    /\ calls = 0
    /\ rclaims = BaseClaims
    /\ rstage = "primary"
    /\ rusername = Unbound
    /\ xms_in = None
    /\ xms_out = Unbound
    /\ jwt_in = IdleToken
    /\ jwt_pad = -1
    /\ jwt_out = Unbound
    /\ thr = [h \in Threads |-> IdleThread]

NextPool ==
    \/ \E t \in Tasks, kw \in PoolInputs : Connect(t, <<>>, kw)
    \/ \E t \in Tasks, body \in PoolTokenBodies : GetTokenReturns(t, body)
    \/ \E t \in Tasks : GetTokenRaises(t, "ClientAuthenticationError")
    \/ \E t \in Tasks : Cancel(t)
    \/ \E t \in Tasks, ok \in BOOLEAN : SuperConnectReturns(t, ok)

SpecPool == InitPool /\ [][NextPool]_vars

\* ------------------------------------------------------------------------
\* properties
\* ------------------------------------------------------------------------
GivenUser(f) == Get(f.given, "user")

GivenPassword(f) == Get(f.given, "password")

GivenCredential(f) == Get(f.given, "credential")

\* the adapter does not reject the credential of this call
CredentialAccepted(f) == ~(Truthy(GivenCredential(f)) /\ ~IsCredential(GivenCredential(f)))

\* the frame has gone through connect as far as it goes without the underlying call returning
Ran(f) == f.pc \in {"super_connect", "done"}

\* a token string the decoder can turn into a claims object
WellFormed(tok) == tok.nseg >= 2 /\ (tok.plen % 4) # 1 /\ tok.json = "object"

\* a token string on which the decoder fails
Malformed(tok) == tok.nseg < 2 \/ (tok.plen % 4) = 1 \/ tok.json = "invalid"

DecodeErrorOf(tok) ==
    IF tok.nseg < 2 THEN "IndexError"
    ELSE IF (tok.plen % 4) = 1 THEN "binascii.Error"
    ELSE "JSONDecodeError"

UsernameError == "ValueError: Could not determine username"

CredentialError == "ValueError: credential must be a TokenCredential or AsyncTokenCredential"

\* C1: a connect call given both user and password acquires no token and
\* hands exactly these two values to the underlying connect; it does not end
\* in an error of the adapter.
C1_ExplicitPairPassesThrough ==
    \A t \in Tasks :
        LET f == task[t]
        IN (Ran(f) /\ Truthy(GivenUser(f)) /\ Truthy(GivenPassword(f)) /\ CredentialAccepted(f))
           => /\ f.acqs = <<>>
              /\ f.forwarded # NotCalled
              /\ Get(f.forwarded, "user") = GivenUser(f)
              /\ Get(f.forwarded, "password") = GivenPassword(f)

\* C2: a connect call given user but no password derives, and forwards the
\* given user, not the derived one; only password is the derived value.
C2_ExplicitUserPreserved ==
    \A t \in Tasks :
        LET f == task[t]
        IN (f.forwarded # NotCalled /\ Truthy(GivenUser(f)) /\ ~Truthy(GivenPassword(f)))
           => /\ Len(f.got) >= 1
              /\ Get(f.forwarded, "user") = GivenUser(f)
              /\ Get(f.forwarded, "password") = f.entra_conninfo["password"]

\* C3 as stated: a connect call given password but no user forwards the
\* given password, and only user is the derived value.
C3_ExplicitPasswordPreserved ==
    \A t \in Tasks :
        LET f == task[t]
        IN (f.forwarded # NotCalled /\ Truthy(GivenPassword(f)) /\ ~Truthy(GivenUser(f)))
           => /\ Get(f.forwarded, "password") = GivenPassword(f)
              /\ Get(f.forwarded, "user") = f.entra_conninfo["user"]

\* C3 as amended: a connect call given password but no user derives, and
\* what it forwards is the derived pair: the password is the token acquired,
\* the given password is dropped, and user is the derived username.
C3_DerivedPasswordReplacesExplicit ==
    \A t \in Tasks :
        LET f == task[t]
        IN /\ (Ran(f) /\ Truthy(GivenPassword(f)) /\ ~Truthy(GivenUser(f)) /\ CredentialAccepted(f))
              => Len(f.acqs) >= 1
           /\ (f.forwarded # NotCalled /\ Truthy(GivenPassword(f)) /\ ~Truthy(GivenUser(f)))
              => /\ Len(f.got) >= 1
                 /\ Get(f.forwarded, "password") = f.got[Len(f.got)]
                 /\ Get(f.forwarded, "password") # GivenPassword(f)
                 /\ Get(f.forwarded, "user") = f.username
                 /\ Truthy(f.username)

C3_Witness ==
    \E t \in Tasks :
        LET f == task[t]
        IN /\ f.forwarded # NotCalled
           /\ GivenPassword(f) = secret
           /\ "user" \notin DOMAIN f.given
           /\ Get(f.forwarded, "password") = f.got[1]

C5_ManagementTokenNeverPassword ==
    \A t \in Tasks :
        LET f == task[t]
        IN f.forwarded # NotCalled
           => LET password == Get(f.forwarded, "password")
              IN ~(password.t = "token" /\ password.scope = AZURE_MANAGEMENT_SCOPE)

\* C6: when neither the database-scope nor the management-scope claims yield
\* a username, the call ends in the username error after exactly two
\* acquisitions, no pair is returned and the underlying connect is not called.
C6_NoUsernameIsAnError ==
    \A t \in Tasks :
        LET f == task[t]
        IN (/\ Len(f.got) = 2
            /\ WellFormed(f.got[1]) /\ ~Truthy(username_primary(f.got[1].claims))
            /\ WellFormed(f.got[2]) /\ ~Truthy(username_fallback(f.got[2].claims)))
           => /\ f.pc = "done"
              /\ f.result = UsernameError
              /\ f.acqs = <<AZURE_DB_FOR_POSTGRES_SCOPE, AZURE_MANAGEMENT_SCOPE>>
              /\ f.entra_conninfo = Unbound
              /\ f.forwarded = NotCalled

C6_Witness ==
    \E t \in Tasks :
        LET f == task[t]
        IN /\ Len(f.got) = 2
           /\ WellFormed(f.got[2])
           /\ f.result = UsernameError

\* C7: a connect call whose credential is a value that is no credential
\* ends in the invalid-credential error, with no acquisition at all and no
\* call of the underlying connect, whatever user and password come with it.
C7_NonCredentialRejected ==
    \A t \in Tasks :
        LET f == task[t]
        IN (/\ f.pc # "idle"
            /\ "credential" \in DOMAIN f.given
            /\ GivenCredential(f) # None
            /\ ~IsCredential(GivenCredential(f)))
           => /\ f.result = CredentialError
              /\ f.acqs = <<>>
              /\ f.forwarded = NotCalled

\* C8: a decoder failure on the database-scope token ends the call with
\* that decoder error, no management-scope acquisition after it and no call of
\* the underlying connect; a decoder failure on the management-scope token
\* also ends the call with the decoder error, not with the username error.
C8_DecodeFailureIsFatal ==
    \A t \in Tasks :
        LET f == task[t]
        IN /\ (Len(f.got) >= 1 /\ Malformed(f.got[1]))
              => /\ f.pc = "done"
                 /\ f.result = DecodeErrorOf(f.got[1])
                 /\ f.acqs = <<AZURE_DB_FOR_POSTGRES_SCOPE>>
                 /\ f.entra_conninfo = Unbound
                 /\ f.forwarded = NotCalled
           /\ (Len(f.got) = 2 /\ Malformed(f.got[2]))
              => /\ f.pc = "done"
                 /\ f.result = DecodeErrorOf(f.got[2])
                 /\ f.result # UsernameError
                 /\ f.entra_conninfo = Unbound
                 /\ f.forwarded = NotCalled

C8_Witness ==
    \E t \in Tasks :
        LET f == task[t]
        IN /\ Len(f.got) = 1
           /\ Malformed(f.got[1])
           /\ f.result = "binascii.Error"

\* C9: when an acquisition fails, the call ends with the very error the
\* credential raised; the failed acquisition is the last one of the call, no
\* pair is returned and the underlying connect is not called.
C9_AcquisitionFailurePropagates ==
    \A t \in Tasks :
        LET f == task[t]
        IN f.raised # "none"
           => /\ f.pc = "done"
              /\ f.result = f.raised
              /\ Len(f.acqs) = Len(f.got) + 1
              /\ f.entra_conninfo = Unbound
              /\ f.forwarded = NotCalled

C9_Witness ==
    \E t \in Tasks :
        LET f == task[t]
        IN /\ f.raised = "ServiceRequestError"
           /\ f.stage = "fallback"
           /\ IsAsyncCredential(f.credential)

\* C10: the username expression yields the first non-empty value among the
\* name parsed from xms_mirid, upn, preferred_username and unique_name, in
\* this order, and an empty value when none of the four is non-empty.
C10_PriorityOrder ==
    rusername # Unbound
    => LET cands == << parse_principal_name(Get(rclaims, "xms_mirid")),
                       Get(rclaims, "upn"),
                       Get(rclaims, "preferred_username"),
                       Get(rclaims, "unique_name") >>
       IN \/ \E i \in 1..4 :
                /\ Truthy(cands[i])
                /\ \A j \in 1..(i-1) : ~Truthy(cands[j])
                /\ rusername = cands[i]
          \/ /\ \A i \in 1..4 : ~Truthy(cands[i])
             /\ ~Truthy(rusername)

C10_Witness ==
    /\ rusername = Str(<<"p", "r", "e", "f">>)
    /\ Get(rclaims, "xms_mirid") = MiridOtherPrefix
    /\ Get(rclaims, "upn") = Str(<<>>)
    /\ Get(rclaims, "unique_name") = Str(<<"u", "n", "i", "q">>)

\* C11: what connect hands to the underlying connect equals what the caller
\* passed in the positional arguments and in every keyword other than user
\* and password (credential, the adapter's own keyword, is taken out), and
\* connect ends with the result of the underlying call.
C11_OtherParametersVerbatim ==
    \A t \in Tasks :
        LET f == task[t]
            others == DOMAIN f.given \ {"user", "password", "credential"}
        IN /\ f.forwarded # NotCalled
              => /\ f.forwarded_args = f.args
                 /\ DOMAIN f.forwarded \ {"user", "password"} = others
                 /\ \A k \in others : f.forwarded[k] = f.given[k]
           /\ f.underlying # "none"
              => /\ f.pc = "done"
                 /\ f.result = f.underlying
                 /\ f.forwarded # NotCalled

C11_Witness ==
    \E t \in Tasks :
        LET f == task[t]
        IN /\ f.underlying = "OperationalError"
           /\ f.forwarded_args # <<>>
           /\ Get(f.forwarded, "sslmode") = PoolKwargs["sslmode"]
           /\ "credential" \in DOMAIN f.given

\* C13: the first acquisition of a derivation is for the database scope;
\* when that token's claims give a username the pair returned is that name
\* with the database-scope token, after one acquisition; a management-scope
\* acquisition only follows a database-scope token that was decoded and gave
\* no username.
C13_DatabaseScopeFirst ==
    \A t \in Tasks :
        LET f == task[t]
        IN /\ f.acqs # <<>> => f.acqs[1] = AZURE_DB_FOR_POSTGRES_SCOPE
           /\ (Len(f.got) >= 1 /\ WellFormed(f.got[1]) /\ Truthy(username_primary(f.got[1].claims)))
              => /\ f.acqs = <<AZURE_DB_FOR_POSTGRES_SCOPE>>
                 /\ f.entra_conninfo =
                       [user |-> username_primary(f.got[1].claims), password |-> f.got[1]]
                 /\ f.got[1].scope = AZURE_DB_FOR_POSTGRES_SCOPE
           /\ Len(f.acqs) >= 2
              => /\ f.acqs = <<AZURE_DB_FOR_POSTGRES_SCOPE, AZURE_MANAGEMENT_SCOPE>>
                 /\ Len(f.got) >= 1
                 /\ WellFormed(f.got[1])
                 /\ ~Truthy(username_primary(f.got[1].claims))

C13_Witness ==
    \E t \in Tasks :
        LET f == task[t]
        IN /\ f.acqs = <<AZURE_DB_FOR_POSTGRES_SCOPE>>
           /\ f.entra_conninfo # Unbound
           /\ f.entra_conninfo["user"] = Str(<<"m", "y", "-", "a", "p", "p">>)
           /\ f.entra_conninfo["password"].scope = AZURE_DB_FOR_POSTGRES_SCOPE

\* C14: every entry into `async with credential` has its exit once the
\* acquisition is over, whether get_token returned, raised or was cancelled:
\* the entries not yet exited are those of the acquisitions in flight; a call
\* cancelled during get_token returns no pair.
C14_EveryEntryExits ==
    /\ entered - exited = Cardinality({t \in Tasks : InFlightAsync(task[t])})
    /\ \A t \in Tasks :
          LET f == task[t]
          IN f.cancelled_at = "get_token"
             => /\ f.pc = "done"
                /\ f.result = "CancelledError"
                /\ f.entra_conninfo = Unbound
                /\ f.forwarded = NotCalled

C14_Witness ==
    \E t \in Tasks :
        LET f == task[t]
        IN /\ f.cancelled_at = "get_token"
           /\ f.stage = "fallback"
           /\ entered = 2
           /\ exited = 2

\* C17: the async credential the caller supplies is never exited (closed)
\* by the core: once an acquisition on it is over it is still open.
C17_SuppliedCredentialStaysOpen ==
    \A t \in Tasks :
        LET f == task[t]
        IN (IsAsyncCredential(f.credential) /\ f.acqs # <<>> /\ ~InFlightAsync(f))
           => /\ exited = 0
              /\ cred_state # "closed"

\* C18: parse_principal_name returns the text after the last '/' exactly
\* when that text is not empty and the text before the last '/', in lower
\* case, ends with providers/microsoft.managedidentity/userassignedidentities;
\* in every other case (no claim, empty claim, no '/', empty last segment,
\* other prefix) it returns None.
C18_PrincipalNameExtraction ==
    xms_out # Unbound
    => LET s == IF xms_in.t = "str" THEN xms_in.v ELSE <<>>
           n == Len(IdentitySuffix)
           IsLast(i) == s[i] = "/" /\ \A j \in (i+1)..Len(s) : s[j] # "/"
           Matches(i) ==
               /\ IsLast(i)
               /\ i < Len(s)
               /\ i - 1 >= n
               /\ \A k \in 1..n : LowerChar(s[i - 1 - n + k]) = IdentitySuffix[k]
       IN IF \E i \in 1..Len(s) : Matches(i)
          THEN \E i \in 1..Len(s) :
                  /\ Matches(i)
                  /\ xms_out = Str([k \in 1..(Len(s) - i) |-> s[i + k]])
          ELSE xms_out = None

C18_Witness ==
    /\ xms_in = MiridValid
    /\ xms_out = Str(<<"m", "y", "-", "a", "p", "p">>)

\* C19: for a claims segment of n characters decode_jwt appends
\* (4 - n % 4) % 4 '=' characters, none when n is a multiple of 4.
C19_PaddingCount ==
    jwt_pad # -1 => jwt_pad = (4 - (jwt_in.plen % 4)) % 4

\* C20: decode_jwt returns the claims of every well-formed claims segment
\* whose length modulo 4 is 0, 2 or 3, and raises a decoder error, returning
\* no claims, for every segment whose length modulo 4 is 1.
C20_DecodesByLength ==
    (jwt_out # Unbound /\ jwt_in.nseg >= 2)
    => /\ (jwt_in.json = "object" /\ (jwt_in.plen % 4) \in {0, 2, 3})
          => /\ jwt_out.ok
             /\ jwt_out.claims = jwt_in.claims
       /\ (jwt_in.plen % 4) = 1
          => /\ ~jwt_out.ok
             /\ jwt_out.err = "binascii.Error"

C20_Witness ==
    /\ jwt_out # Unbound
    /\ jwt_out.ok
    /\ (jwt_in.plen % 4) = 0
    /\ jwt_pad = 4
    /\ Get(jwt_out.claims, "upn") = Str(<<"u", "@", "x">>)

\* C16: DefaultAzureCredential() runs at most once in the process and every
\* caller of get_default_azure_credentials(), on whichever thread, gets the
\* same instance.
C16_DefaultCredentialOnce ==
    /\ default_constructed <= 1
    /\ \A g, h \in Threads :
          (thr[g].ret # None /\ thr[h].ret # None) => thr[g].ret = thr[h].ret

\* a call that has to derive: its credential is accepted and user or password is missing
NeedsDerivation(f) ==
    /\ f.pc # "idle"
    /\ CredentialAccepted(f)
    /\ (~Truthy(GivenUser(f)) \/ ~Truthy(GivenPassword(f)))

\* what the call was given and what it was answered
Inputs(f) == <<f.args, f.given, f.got, f.raised, f.underlying, f.cancelled_at>>

\* how the call ended
Outcome(f) == <<f.result, f.forwarded_args, f.forwarded, f.entra_conninfo, f.acqs>>

\* C12: nothing is cached across calls: every call that has to derive
\* makes its own acquisition for the database scope, and two finished calls
\* with the same inputs and the same answers of the credential end the same
\* way (same forwarded parameters, or same error).
C12_NoCachingAcrossCalls ==
    /\ \A t \in Tasks :
          NeedsDerivation(task[t])
          => /\ Len(task[t].acqs) >= 1
             /\ task[t].acqs[1] = AZURE_DB_FOR_POSTGRES_SCOPE
             /\ (task[t].forwarded # NotCalled
                 => /\ Len(task[t].got) >= 1
                    /\ Get(task[t].forwarded, "password") = task[t].got[Len(task[t].got)])
    /\ \A t, u \in Tasks :
          (task[t].pc = "done" /\ task[u].pc = "done" /\ Inputs(task[t]) = Inputs(task[u]))
          => Outcome(task[t]) = Outcome(task[u])

C12_Witness ==
    \E t, u \in Tasks :
        /\ t # u
        /\ task[t].pc = "done" /\ task[u].pc = "done"
        /\ NeedsDerivation(task[t])
        /\ Inputs(task[t]) = Inputs(task[u])
        /\ Len(task[t].got) = 2
        /\ task[t].result = "connection"
        /\ task[u].acqs = <<AZURE_DB_FOR_POSTGRES_SCOPE, AZURE_MANAGEMENT_SCOPE>>

\* C15: two concurrent connect calls on one async credential are
\* independent: each makes its own acquisitions, and each acquisition runs,
\* as it does when the call is alone, on the credential its own
\* `async with` has opened, whatever the other call does meanwhile.
C15_ConcurrentCallsIndependent ==
    \A t \in Tasks :
        /\ NeedsDerivation(task[t])
           => (Len(task[t].acqs) >= 1 /\ task[t].acqs[1] = AZURE_DB_FOR_POSTGRES_SCOPE)
        /\ InFlightAsync(task[t]) => cred_state = "open"

====
